---- MODULE Spec2Model ----
(***************************************************************************)
(* A model of pinn/networks/pinet2_modularized.py (PiNet2 and its layers)  *)
(* and of the factory pinn/networks/__init__.py.                           *)
(*                                                                         *)
(* Tensors are symbolic terms: a tuple whose first element names the       *)
(* operation that produced the tensor and whose other elements are the     *)
(* operands.  Two tensors are equal exactly when they were computed the    *)
(* same way from the same operands, so data flow (which value feeds which  *)
(* layer) is observable.  The numeric behaviour of EquiVarLayer under      *)
(* rotations is modelled separately, in exact integer arithmetic, in the   *)
(* second half of the module (SpecEq).                                     *)
(***************************************************************************)
EXTENDS Integers, Sequences, FiniteSets, TLC

\* ------------------------------------------------------------------ bounds
MaxRank == 6
MaxDepth == 2

Ranks == 1..MaxRank
Depths == 1..MaxDepth

\* "spline" stands for every basis_type the constructor does not recognise
BasisTypes == {"polynomial", "gaussian", "spline"}

\* out_extra is a dict: its keys in insertion order
OutExtraChoices == {<<>>, <<"p3">>, <<"e">>, <<"e", "p3">>, <<"p3", "e">>, <<"e", "q">>}

\* "PiNet3" stands for every name that is not registered
NetworkNames == {"PiNet2", "PiNet3"}

RequiredKeys == {"ind_1", "elems", "coord"}
OptionalKeys == {"ind_2", "dist", "diff", "p1", "norm_diff"}

VARIABLES
    pc,            \* position of the program: start / constructed / preprocessed / loop / done / error
    err,           \* the exception that ended the run, if any
    via,           \* how the model was built: "none", "direct" or "get"
    rank,          \* self.rank
    depth,         \* self.depth
    basis_type,    \* the basis_type argument of the constructor
    out_extra,     \* self.out_extra (keys in order)
    attrs,         \* the attributes set on the PiNet2 instance
    gc_blocks,     \* self.gc_blocks: per block its attributes, rank and n_layers
    heap,          \* the dict objects: 1 is the caller's mapping, 2 the copy
    input0,        \* the caller's mapping as it was when the call started
    tensors,       \* the local name `tensors` of PiNet2.call: a reference into heap
    basis, output, output_extra, px_list, diff_list, ix_list, i,
    steps,         \* per depth step begun: what was fed to the block and what it returned
    result,        \* the value returned by PiNet2.call
    eq             \* state of the rotation experiment (SpecEq)

vars == <<pc, err, via, rank, depth, basis_type, out_extra, attrs, gc_blocks, heap,
          input0, tensors, basis, output, output_extra, px_list, diff_list, ix_list,
          i, steps, result, eq>>

modelVars == <<rank, depth, basis_type, out_extra, attrs, gc_blocks>>
callVars == <<heap, input0, tensors, basis, output, output_extra, px_list, diff_list,
              ix_list, i, steps, result>>

NoErr == [type |-> "none", line |-> 0]
Raise(t, l) == [type |-> t, line |-> l]

\* ------------------------------------------------------------- dict helpers
EmptyDict == [k \in {} |-> <<"none">>]
DictSet(d, k, v) == [x \in DOMAIN d \cup {k} |-> IF x = k THEN v ELSE d[x]]
DictUpdate(d, e) == [x \in DOMAIN d \cup DOMAIN e |-> IF x \in DOMAIN e THEN e[x] ELSE d[x]]

Unset == <<"unset">>
Zero == <<"zero">>

\* ----------------------------------------------------- external collaborators
CellListNL(d) ==
    [ind_2 |-> <<"nl_ind_2", d["ind_1"], d["coord"]>>,
     dist  |-> <<"nl_dist", d["ind_1"], d["coord"]>>,
     diff  |-> <<"nl_diff", d["ind_1"], d["coord"]>>]
AtomicOnehot(elems) == <<"onehot", elems>>
CutoffFunc(dist) == <<"cutoff", dist>>
BasisFn(bt, dist, fc) == <<"basis", <<bt>>, dist, fc>>
ResUpdate(tier, idx, old, new) == <<"res", tier, idx, old, new>>
OutLayer(name, idx, ind_1, px, prev) == <<"add", prev, <<"out", <<name>>, idx, ind_1, px>>>>
ANNOutput(ind_1, out) == <<"ann_output", ind_1, out>>

\* ------------------------------------------------------------------ factory
implemented_networks ==
    {"PiNet", "BPNN", "LJ", "PiNet2", "PiNet2P5Dot", "PiNet2P5IrrepDot",
     "PiNet2P5IrrepDotChannel"}

\* --------------------------------------------------------------- GCBlock
\* n_layers rounded up instead of down
NLayersMut(rk) == ((rk + 1) \div 2) + 1
NLayers(rk) == (rk \div 2) + 1

BlockActive(rk, tier) == rk >= tier

GCBlock_init(rk) ==
    [rank |-> rk,
     n_layers |-> NLayers(rk),
     attrs |-> (IF rk >= 1 THEN {"invar_p1_layer", "pp_layer"} ELSE {})
               \cup (IF rk >= 3 THEN {"equivar_p3_layer"} ELSE {})
               \cup (IF rk >= 5 THEN {"equivar_p5_layer"} ELSE {})
               \cup {"scale3_layer", "scale5_layer"}]

\* the slice of the interaction signal each higher-rank path reads (0-based)
P3Slice == 1
P5Slice == 2

Split(t, n) == [s \in 1..n |-> <<"slice", s - 1, n, t>>]

\* "pp_layer" terms carry 1 for the pp_layer of InvarLayer and 0 for the
\* pp_layer of the GCBlock itself
InvarLayer_call(idx, ind_2, p1, bs) ==
    LET i1a == <<"pi_layer", idx, ind_2, p1, bs>>
        i1b == <<"ii_layer", idx, i1a>>
        p1a == <<"ip_layer", ind_2, p1, i1b>>
        p1b == <<"pp_layer", 1, idx, p1a>>
    IN  [p1 |-> p1b, i1 |-> i1b]

EquiVarLayer_call(tier, idx, ind_2, px, i1, diff) ==
    LET ix1 == <<"pix_layer", tier, idx, ind_2, px>>
        ix2 == <<"scale_layer", ix1, i1>>
        scaled_diff == <<"scale_layer", <<"expand", diff>>, i1>>
        ix3 == <<"plus", ix2, scaled_diff>>
        pxn == <<"ip_layer", ind_2, px, ix3>>
        dotted_px == <<"dot_layer", tier, idx, pxn>>
    IN  [px |-> pxn, ix |-> ix3, dotted |-> dotted_px]

\* GCBlock.call of block number idx, built with rank rk.  Besides the two
\* returned lists the record tells which rank paths ran, the slices of the
\* interaction signal and which slice (0-based) each higher-rank path read.
GCBlock_call(rk, idx, ind_2, bs, px, diffs) ==
    LET n   == NLayers(rk)
        inv == InvarLayer_call(idx, ind_2, px[1], bs)
        i1s == Split(inv.i1, n)
        e3  == EquiVarLayer_call(3, idx, ind_2, px[2], i1s[P3Slice + 1], diffs[1])
        e5  == EquiVarLayer_call(5, idx, ind_2, px[3], i1s[P5Slice + 1], diffs[2])
        on3 == BlockActive(rk, 3)
        on5 == BlockActive(rk, 5)
        cat == <<inv.p1>> \o (IF on3 THEN <<e3.dotted>> ELSE <<>>)
                          \o (IF on5 THEN <<e5.dotted>> ELSE <<>>)
        ixl == <<inv.i1>> \o (IF on3 THEN <<e3.ix>> ELSE <<>>)
                          \o (IF on5 THEN <<e5.ix>> ELSE <<>>)
        p1t1 == <<"pp_layer", 0, idx, <<"concat", cat>>>>
        pxt1 == Split(p1t1, n)
        pxl == <<pxt1[1]>>
               \o (IF on3 THEN << <<"scale3_layer", e3.px, pxt1[2]>> >> ELSE <<>>)
               \o (IF on5 THEN << <<"scale5_layer", e5.px, pxt1[3]>> >> ELSE <<>>)
    IN  [px_list |-> pxl,
         ix_list |-> ixl,
         i1s |-> i1s,
         paths |-> {1} \cup (IF on3 THEN {3} ELSE {}) \cup (IF on5 THEN {5} ELSE {}),
         read |-> [t \in (IF on3 THEN {3} ELSE {}) \cup (IF on5 THEN {5} ELSE {})
                     |-> IF t = 3 THEN P3Slice ELSE P5Slice]]

\* ------------------------------------------------------- PreprocessLayer
Input(opt) == [k \in RequiredKeys \cup opt |-> <<"in", <<k>> >>]

\* tensors.copy(): the reference of the new dict object
\* (DictCopyMut: the same object instead of a copy)
DictCopyMut(ref) == ref
DictCopy(ref) == 2

Reshape(v) == <<"reshape", v>>

\* PreprocessLayer.call after the copy, on the dict value d
PreprocessLayer_call(rk, d) ==
    LET d1 == [k \in DOMAIN d |->
                 IF k \in {"elems", "dist"} THEN Reshape(d[k]) ELSE d[k]]
        nl == DictUpdate(d1, CellListNL(d1))
        d2 == IF "ind_2" \notin DOMAIN d1
              THEN DictUpdate(nl,
                       [p1 |-> <<"cast", AtomicOnehot(nl["elems"]), nl["coord"]>>,
                        norm_diff |-> <<"div_norm", nl["diff"]>>])
              ELSE d1
        d3 == IF rk >= 3 THEN DictSet(d2, "p3", <<"zeros", 3, d2["ind_1"]>>) ELSE d2
        d4 == IF rk >= 5 THEN DictSet(d3, "p5", <<"zeros", 5, d3["ind_1"]>>) ELSE d3
    IN  IF rk >= 5 /\ "norm_diff" \notin DOMAIN d4
        THEN [tensors |-> d4, err |-> Raise("KeyError", 155)]
        ELSE IF rk >= 5
        THEN [tensors |-> DictSet(d4, "diff_p5", <<"diff_p5", d4["norm_diff"]>>),
              err |-> NoErr]
        ELSE [tensors |-> d4, err |-> NoErr]

\* --------------------------------------------------------------- PiNet2
StartsWithP(k) == k \in {"p1", "p3", "p5"}

Attr(n) == <<"self", n>>
ExtraAttr(k) == <<k, "_out_layers">>

PiNet2_attrs(rk, bt, oe) ==
    {Attr("preprocess"), Attr("cutoff")}
    \cup (IF bt \in {"polynomial", "gaussian"} THEN {Attr("basis_fn")} ELSE {})
    \cup (IF rk >= 1 THEN {Attr("res_update1")} ELSE {})
    \cup (IF rk >= 3 THEN {Attr("res_update3")} ELSE {})
    \cup (IF rk >= 5 THEN {Attr("res_update5")} ELSE {})
    \cup {Attr("gc_blocks"), Attr("out_layers"), Attr("ann_output")}
    \cup {ExtraAttr(oe[j]) : j \in 1..Len(oe)}

\* PiNet2.__init__
PiNet2_init(rk, dp, bt, oe) ==
    /\ rank' = rk
    /\ depth' = dp
    /\ basis_type' = bt
    /\ out_extra' = oe
    /\ attrs' = PiNet2_attrs(rk, bt, oe)
    /\ gc_blocks' = [j \in 1..dp |-> GCBlock_init(rk)]
    /\ pc' = "constructed"
    /\ err' = NoErr

\* PiNet2(...) called directly
Construct ==
    /\ pc = "start"
    /\ \E rk \in Ranks, dp \in Depths, bt \in BasisTypes, oe \in OutExtraChoices :
           PiNet2_init(rk, dp, bt, oe)
    /\ via' = "direct"
    /\ UNCHANGED <<callVars, eq>>

\* networks.get({'name': ..., 'params': ...}): the lookup of line 29 and, for a
\* registered name, the construction of the network with the given params
Get ==
    /\ pc = "start"
    /\ \E name \in NetworkNames :
          IF name \in implemented_networks
          THEN \E rk \in Ranks, dp \in Depths, bt \in BasisTypes, oe \in OutExtraChoices :
                  PiNet2_init(rk, dp, bt, oe)
          ELSE /\ pc' = "error"
               /\ err' = Raise("KeyError", 29)
               /\ UNCHANGED modelVars
    /\ via' = "get"
    /\ UNCHANGED <<callVars, eq>>

\* networks.get(model) with an already built Keras model returns it as it is
GetModel ==
    /\ pc = "constructed"
    /\ via = "direct"
    /\ via' = "get"
    /\ UNCHANGED <<pc, err, modelVars, callVars, eq>>

\* ---------------------------------------------------------- PiNet2.call
\* line 268: tensors = self.preprocess(tensors), on the mapping the caller passes
CallPreprocess ==
    /\ pc = "constructed"
    /\ \E opt \in SUBSET OptionalKeys :
          LET h0  == [heap EXCEPT ![1] = Input(opt)]
              r   == DictCopy(1)
              res == PreprocessLayer_call(rank, h0[1])
          IN  /\ input0' = Input(opt)
              /\ heap' = [h0 EXCEPT ![r] = res.tensors]
              /\ err' = res.err
              /\ IF res.err = NoErr
                 THEN pc' = "preprocessed" /\ tensors' = r
                 ELSE pc' = "error" /\ tensors' = 1
    /\ UNCHANGED <<via, modelVars, basis, output, output_extra, px_list, diff_list,
                   ix_list, i, steps, result, eq>>

\* lines 272-275: the accumulators at the start of a forward pass
OutputInit == Zero
OutputExtraInit(oe) == [k \in {oe[j] : j \in 1..Len(oe)} |-> Zero]

\* lines 270-282: cutoff, basis, accumulators and the first feature lists
CallSetup ==
    /\ pc = "preprocessed"
    /\ LET t == heap[tensors] IN
       IF "dist" \notin DOMAIN t
       THEN /\ pc' = "error" /\ err' = Raise("KeyError", 270)
            /\ UNCHANGED <<basis, output, output_extra, px_list, diff_list, i>>
       ELSE IF Attr("basis_fn") \notin attrs
       THEN /\ pc' = "error" /\ err' = Raise("AttributeError", 271)
            /\ UNCHANGED <<basis, output, output_extra, px_list, diff_list, i>>
       ELSE /\ basis' = BasisFn(basis_type, t["dist"], CutoffFunc(t["dist"]))
            /\ output' = OutputInit
            /\ output_extra' = OutputExtraInit(out_extra)
            /\ IF "p1" \notin DOMAIN t
               THEN /\ pc' = "error" /\ err' = Raise("KeyError", 276)
                    /\ UNCHANGED <<px_list, diff_list, i>>
               ELSE IF "norm_diff" \notin DOMAIN t
               THEN /\ pc' = "error" /\ err' = Raise("KeyError", 277)
                    /\ px_list' = <<t["p1"]>>
                    /\ UNCHANGED <<diff_list, i>>
               ELSE /\ pc' = "loop" /\ err' = NoErr
                    /\ i' = 0
                    /\ px_list' = <<t["p1"]>>
                                   \o (IF rank >= 3 THEN <<t["p3"]>> ELSE <<>>)
                                   \o (IF rank >= 5 THEN <<t["p5"]>> ELSE <<>>)
                    /\ diff_list' = <<t["norm_diff"]>>
                                     \o (IF rank >= 5 THEN <<t["diff_p5"]>> ELSE <<>>)
    /\ UNCHANGED <<via, modelVars, heap, input0, tensors, ix_list, steps, result, eq>>

\* line 293: the main OutLayer of step idx
\* (StepMainOutputMut: the accumulator is not passed on)
StepMainOutputMut(idx, ind_1, px, out) == OutLayer("main", idx, ind_1, px[1], Zero)
StepMainOutput(idx, ind_1, px, out) == OutLayer("main", idx, ind_1, px[1], out)

\* lines 294-298 for the names ks still to come: the extra accumulators, and
\* whether a name raised (px_list[k] indexes a list with a string)
RECURSIVE ExtraLoop(_, _, _, _, _)
ExtraLoop(ks, idx, ind_1, px, acc) ==
    IF ks = <<>> THEN [extra |-> acc, err |-> NoErr]
    ELSE IF StartsWithP(Head(ks)) THEN [extra |-> acc, err |-> Raise("TypeError", 296)]
    ELSE ExtraLoop(Tail(ks), idx, ind_1, px,
                   [acc EXCEPT ![Head(ks)] = OutLayer(Head(ks), idx, ind_1, px[1], acc[Head(ks)])])

\* lines 299-304: the thresholds of the residual updates
\* (ResGateMut: the thresholds of the block paths instead)
ResGateMut(rk, tier) == rk >= tier
ResGate(rk, tier) == rk > tier

\* lines 299-304 on the dict value t
ResidualUpdates(rk, idx, t, px) ==
    LET t1 == IF ResGate(rk, 1)
              THEN DictSet(t, "p1", ResUpdate(1, idx, t["p1"], px[1])) ELSE t
        t3 == IF ResGate(rk, 3)
              THEN DictSet(t1, "p3", ResUpdate(3, idx, t1["p3"], px[2])) ELSE t1
        t5 == IF ResGate(rk, 5)
              THEN DictSet(t3, "p5", ResUpdate(5, idx, t3["p5"], px[3])) ELSE t3
    IN  t5

\* lines 284-304: one iteration of the loop over the depth
DepthStep ==
    /\ pc = "loop"
    /\ i < depth
    /\ LET t   == heap[tensors]
           blk == GCBlock_call(gc_blocks[i + 1].rank, i, t["ind_2"], basis, px_list, diff_list)
           out == StepMainOutput(i, t["ind_1"], blk.px_list, output)
           ex  == ExtraLoop(out_extra, i, t["ind_1"], blk.px_list, output_extra)
           aft == IF ex.err = NoErr THEN ResidualUpdates(rank, i, t, blk.px_list) ELSE t
       IN  /\ steps' = Append(steps, [fed |-> px_list, blk |-> blk,
                                      before |-> t, after |-> aft])
           /\ px_list' = blk.px_list
           /\ ix_list' = blk.ix_list
           /\ output' = out
           /\ output_extra' = ex.extra
           /\ err' = ex.err
           /\ IF ex.err = NoErr
              THEN /\ heap' = [heap EXCEPT ![tensors] = aft]
                   /\ i' = i + 1
                   /\ pc' = "loop"
              ELSE /\ pc' = "error"
                   /\ UNCHANGED <<heap, i>>
    /\ UNCHANGED <<via, modelVars, input0, tensors, basis, diff_list, result, eq>>

\* lines 306-310: pooling and the returned value
CallReturn ==
    /\ pc = "loop"
    /\ i = depth
    /\ LET pooled == ANNOutput(heap[tensors]["ind_1"], output) IN
         /\ output' = pooled
         /\ result' = IF out_extra # <<>>
                       THEN [kind |-> "pair", prediction |-> pooled, extra |-> output_extra]
                       ELSE [kind |-> "single", prediction |-> pooled, extra |-> EmptyDict]
    /\ pc' = "done"
    /\ UNCHANGED <<err, via, modelVars, heap, input0, tensors, basis, output_extra,
                   px_list, diff_list, ix_list, i, steps, eq>>

EqIdle == [pc |-> "idle"]

MainInit ==
    /\ pc = "start"
    /\ err = NoErr
    /\ via = "none"
    /\ rank = 0
    /\ depth = 0
    /\ basis_type = "none"
    /\ out_extra = <<>>
    /\ attrs = {}
    /\ gc_blocks = <<>>
    /\ heap = [r \in 1..2 |-> EmptyDict]
    /\ input0 = EmptyDict
    /\ tensors = 1
    /\ basis = Unset
    /\ output = Unset
    /\ output_extra = EmptyDict
    /\ px_list = <<>>
    /\ diff_list = <<>>
    /\ ix_list = <<>>
    /\ i = 0
    /\ steps = <<>>
    /\ result = [kind |-> "none", prediction |-> Unset, extra |-> EmptyDict]

Init == MainInit /\ eq = EqIdle

Next ==
    \/ Construct
    \/ Get
    \/ GetModel
    \/ CallPreprocess
    \/ CallSetup
    \/ DepthStep
    \/ CallReturn

Spec == Init /\ [][Next]_vars

\* ================================================================ claims
Val(d, k) == IF k \in DOMAIN d THEN d[k] ELSE <<"absent">>
Names(oe) == {oe[j] : j \in 1..Len(oe)}
TierKey(tier) == IF tier = 1 THEN "p1" ELSE IF tier = 3 THEN "p3" ELSE "p5"
TierPos(tier) == IF tier = 1 THEN 1 ELSE IF tier = 3 THEN 2 ELSE 3
Tiers == {1, 3, 5}

\* C1: whenever PreprocessLayer.call has returned, the mapping it returned
\* contains p1 and norm_diff, and no read of norm_diff or p1 (lines 155, 276,
\* 277) ever raises a KeyError, whichever optional keys the input had.
C1_PreprocessProvidesKeys ==
    /\ pc \in {"preprocessed", "loop", "done"}
          => {"p1", "norm_diff"} \subseteq DOMAIN heap[tensors]
    /\ ~(pc = "error" /\ err.type = "KeyError" /\ err.line \in {155, 276, 277})

\* C2: for every depth step after the first and every rank whose residual
\* update was applied in the step before, the feature of that rank fed to the
\* GCBlock is the result of that residual update.
C2_ResidualFeedsNextBlock ==
    \A j \in 2..Len(steps) : \A tier \in Tiers :
        Val(steps[j - 1].after, TierKey(tier)) # Val(steps[j - 1].before, TierKey(tier))
            => steps[j].fed[TierPos(tier)] = steps[j - 1].after[TierKey(tier)]

RECURSIVE Contributions(_)
\* the OutLayer contributions summed in an accumulator, innermost first
Contributions(acc) ==
    IF acc = Zero THEN <<>> ELSE Append(Contributions(acc[2]), acc[3])

\* C3: every depth step begun adds one contribution of each configured extra
\* name to that name's own accumulator, the main accumulator only receives
\* contributions of the main OutLayer, and the call returns a pair with
\* exactly the configured names when out_extra is non-empty and a single
\* prediction otherwise.
C3_ExtraOutputsAccumulate ==
    /\ \A k \in DOMAIN output_extra :
          LET cs == Contributions(output_extra[k]) IN
          /\ Len(cs) = Len(steps)
          /\ \A n \in 1..Len(cs) : cs[n][2] = <<k>> /\ cs[n][3] = n - 1
    /\ pc = "loop" =>
          LET cs == Contributions(output) IN
          \A n \in 1..Len(cs) : cs[n][2] = <<"main">>
    /\ pc = "loop" => DOMAIN output_extra = Names(out_extra)
    /\ pc = "done" =>
          IF out_extra # <<>>
          THEN result.kind = "pair" /\ DOMAIN result.extra = Names(out_extra)
          ELSE result.kind = "single"
    /\ ~(pc = "error" /\ err.line = 296)

\* C4: no model object exists for a basis_type other than "polynomial" and
\* "gaussian" (construction ends in an error), and networks.get with an
\* unregistered name ends in a KeyError with no model built.
C4_MalformedConfigFailsFast ==
    /\ basis_type \notin {"polynomial", "gaussian"}
          => /\ pc \in {"start", "error"}
             /\ attrs = {} /\ gc_blocks = <<>>
    /\ (pc = "error" /\ err.line = 29)
          => err.type = "KeyError" /\ attrs = {} /\ gc_blocks = <<>>

Rank3Layers == {"equivar_p3_layer", "scale3_layer"}
Rank5Layers == {"equivar_p5_layer", "scale5_layer"}

\* the rank-3 / rank-5 layers and tensors that exist in the current state,
\* and the rank-3 / rank-5 block paths that have run
HigherRankThings(tier) ==
    LET layers  == IF tier = 3 THEN Rank3Layers ELSE Rank5Layers
        res     == IF tier = 3 THEN {"res_update3"} ELSE {"res_update5"}
        keys    == IF tier = 3 THEN {"p3"} ELSE {"p5", "diff_p5"}
    IN  {a \in res : Attr(a) \in attrs}
        \cup UNION {gc_blocks[j].attrs \cap layers : j \in 1..Len(gc_blocks)}
        \cup (keys \cap (DOMAIN heap[1] \cup DOMAIN heap[2]))
        \cup UNION {IF tier \in steps[j].blk.paths THEN {"path"} ELSE {}
                    : j \in 1..Len(steps)}

\* C5: a model built with rank=1 has no rank-3 and no rank-5 layer or tensor
\* (p3, p5, diff_p5, EquiVarLayer, residual layer, scale layer), at
\* construction and during every forward pass; built with rank=3 it has no
\* rank-5 layer or tensor.
C5_RankGating ==
    /\ rank = 1 => HigherRankThings(3) = {} /\ HigherRankThings(5) = {}
    /\ rank = 3 => HigherRankThings(5) = {}

RECURSIVE ExpectedOutput(_)
\* the sum of the first n per-step contributions, each computed by
\* out_layers[j] from the rank-1 output of gc_blocks[j]
ExpectedOutput(n) ==
    IF n = 0 THEN Zero
    ELSE <<"add", ExpectedOutput(n - 1),
           <<"out", <<"main">>, n - 1, heap[tensors]["ind_1"], steps[n].blk.px_list[1]>> >>

\* C6: the prediction accumulator is zero when the loop starts, after n steps
\* it is the sum, in increasing order, of the contributions of out_layers[0..n-1]
\* computed from the rank-1 outputs of gc_blocks[0..n-1], and the returned
\* prediction is the pooling of the sum of all depth contributions.
C6_DepthAccumulation ==
    /\ pc = "loop" =>
          /\ Len(steps) = i
          /\ output = ExpectedOutput(i)
          /\ \A n \in 1..i : steps[n].blk.px_list[1][4][3] = n - 1
    /\ pc = "done" =>
          /\ Len(steps) = depth
          /\ result.prediction = ANNOutput(heap[tensors]["ind_1"], ExpectedOutput(depth))

C6_Witness ==
    /\ pc = "done"
    /\ depth >= 2
    /\ Len(Contributions(result.prediction[3])) = depth

\* C7: in every depth step that completes, tensors["p1"] is replaced by a
\* residual update iff rank > 1, tensors["p3"] iff rank > 3 and tensors["p5"]
\* iff rank > 5; with rank=3 (rank=5) the rank-3 (rank-5) path of the block
\* ran in that step although its feature received no residual update.
C7_ResidualGating ==
    [][(pc = "loop" /\ pc' = "loop" /\ i' = i + 1) =>
        /\ \A tier \in Tiers :
              (Val(heap'[tensors], TierKey(tier)) # Val(heap[tensors], TierKey(tier)))
                  <=> rank > tier
        /\ \A tier \in Tiers :
              Val(heap'[tensors], TierKey(tier)) # Val(heap[tensors], TierKey(tier))
                  => heap'[tensors][TierKey(tier)]
                       = <<"res", tier, i, heap[tensors][TierKey(tier)],
                           px_list'[TierPos(tier)]>>
        /\ rank = 3 => 3 \in steps'[i'].blk.paths
        /\ rank = 5 => 5 \in steps'[i'].blk.paths
      ]_vars

C7_Witness ==
    /\ pc = "loop"
    /\ i >= 1
    /\ rank = 3
    /\ 3 \in steps[i].blk.paths
    /\ heap[tensors]["p3"][1] = "zeros"
    /\ heap[tensors]["p1"][1] = "res"

\* C8: the mapping object the caller passed has, after PreprocessLayer.call
\* and in every later state of the forward pass, exactly the keys and values
\* it had when the call started.
C8_InputNotMutated == heap[1] = input0

C8_Witness ==
    /\ pc = "done"
    /\ rank > 5
    /\ heap[tensors]["p5"][1] = "res"
    /\ heap[tensors] # heap[1]
    /\ heap[1] = input0

\* the higher-rank paths of a GCBlock call read pairwise different slices
DisjointReads(b) ==
    \A t1, t2 \in DOMAIN b.read : t1 # t2 => b.read[t1] # b.read[t2]

\* what holds of a GCBlock call at every rank
GCBlockShape(b) ==
    /\ \A s \in 1..Len(b.i1s) : b.i1s[s] = <<"slice", s - 1, Len(b.i1s), b.ix_list[1]>>
    /\ \A t \in DOMAIN b.read : b.read[t] \in 1..(Len(b.i1s) - 1)
    /\ DisjointReads(b)
    /\ Len(b.px_list) = Cardinality(b.paths)
    /\ Len(b.ix_list) = Cardinality(b.paths)

\* C10 as stated: for every rank from 1 to 5 the interaction signal is split
\* into rank//2 + 1 slices, exactly one per rank path that executes.
C10_OneSlicePerPath ==
    \A j \in 1..Len(steps) :
        rank \in 1..5 =>
            LET b == steps[j].blk IN
            /\ Len(b.i1s) = (rank \div 2) + 1
            /\ Len(b.i1s) = Cardinality(b.paths)
            /\ GCBlockShape(b)
            /\ rank < 3 => b.paths = {1} /\ Len(b.px_list) = 1 /\ Len(b.ix_list) = 1

\* C10 amended: for every rank from 1 to 5 the interaction signal is computed
\* once and split into rank//2 + 1 slices; the executing paths are the rank-1
\* path, the rank-3 path iff rank >= 3 and the rank-5 path iff rank >= 5, so
\* there is one slice per executing path when rank is odd and one slice more
\* than executing paths (read by no EquiVarLayer) when rank is 2 or 4; each
\* EquiVarLayer reads a slice no other EquiVarLayer reads, both returned lists
\* have one element per executing path, and a single element when rank < 3.
C10_SlicesAndPaths ==
    \A j \in 1..Len(steps) :
        rank \in 1..5 =>
            LET b == steps[j].blk IN
            /\ Len(b.i1s) = (rank \div 2) + 1
            /\ b.paths = {t \in Tiers : rank >= t}
            /\ Len(b.i1s) = Cardinality(b.paths) + (IF rank % 2 = 0 THEN 1 ELSE 0)
            /\ GCBlockShape(b)
            /\ rank < 3 => b.paths = {1} /\ Len(b.px_list) = 1 /\ Len(b.ix_list) = 1

C10_Witness ==
    /\ Len(steps) >= 1
    /\ rank = 4
    /\ Len(steps[1].blk.i1s) = 3
    /\ steps[1].blk.paths = {1, 3}

\* ================================================ rotations (exact arithmetic)
(***************************************************************************)
(* The numeric part of PreprocessLayer and EquiVarLayer on integer         *)
(* coordinates.  A tensor is a record num / (c * N^npow), where num holds  *)
(* one integer vector per atom or pair, N is the norm of the whole diff    *)
(* tensor (line 149) and s = N^2.  The forward pass is evaluated on the    *)
(* input (A) and on the input with every coordinate rotated (B).           *)
(***************************************************************************)
NAtoms == 2
MaxCoord == 1
MaxWeight == 2

\* rc=4.0, squared
Rc2 == 16

Coords == (-MaxCoord)..MaxCoord
Vec3 == {<<x, y, z>> : x \in Coords, y \in Coords, z \in Coords}
Rotations == {"x90", "y90", "z90"}

\* a quarter turn about a coordinate axis
Rotate(r, v) ==
    IF r = "x90" THEN <<v[1], -v[3], v[2]>>
    ELSE IF r = "y90" THEN <<v[3], v[2], -v[1]>>
    ELSE <<-v[2], v[1], v[3]>>

RECURSIVE SumSeq(_)
SumSeq(q) == IF q = <<>> THEN 0 ELSE Head(q) + SumSeq(Tail(q))

VSub(u, v) == [x \in DOMAIN u |-> u[x] - v[x]]
VAdd(u, v) == [x \in DOMAIN u |-> u[x] + v[x]]
VScale(k, v) == [x \in DOMAIN v |-> k * v[x]]
VDot(u, v) == SumSeq([x \in DOMAIN u |-> u[x] * v[x]])
VZero(dim) == [x \in 1..dim |-> 0]

RECURSIVE VSum(_, _)
VSum(q, dim) == IF q = <<>> THEN VZero(dim) ELSE VAdd(Head(q), VSum(Tail(q), dim))

AllPairs(n) == [k \in 1..(n * n) |-> <<((k - 1) \div n) + 1, ((k - 1) % n) + 1>>]

\* the neighbour list: every ordered pair of different atoms within the cutoff
CellListNL_eval(coord) ==
    LET Near(pr) == /\ pr[1] # pr[2]
                    /\ VDot(VSub(coord[pr[2]], coord[pr[1]]),
                            VSub(coord[pr[2]], coord[pr[1]])) < Rc2
        ind_2 == SelectSeq(AllPairs(Len(coord)), Near)
        diff  == [k \in DOMAIN ind_2 |-> VSub(coord[ind_2[k][2]], coord[ind_2[k][1]])]
    IN  [ind_2 |-> ind_2,
         diff  |-> diff,
         dist2 |-> [k \in DOMAIN ind_2 |-> VDot(diff[k], diff[k])]]

\* lines 162-171 on the numerators x, y, z of one row of norm_diff
DiffP5(v) ==
    <<2 * v[1] * v[1] - v[2] * v[2] - v[3] * v[3],
      2 * v[2] * v[2] - v[1] * v[1] - v[3] * v[3],
      3 * v[1] * v[2],
      3 * v[1] * v[3],
      3 * v[2] * v[3]>>

\* PreprocessLayer.call on coordinates, without precomputed keys
PreprocessLayer_eval(rk, coord) ==
    LET nl == CellListNL_eval(coord)
        s  == SumSeq(nl.dist2)
        n  == Len(coord)
    IN  [ind_2 |-> nl.ind_2,
         dist2 |-> nl.dist2,
         norm_diff |-> [num |-> nl.diff, c |-> 1, npow |-> 1, s |-> s],
         p3 |-> [num |-> [a \in 1..n |-> VZero(3)], c |-> 1, npow |-> 0, s |-> s],
         p5 |-> [num |-> [a \in 1..n |-> VZero(5)], c |-> 1, npow |-> 0, s |-> s],
         diff_p5 |-> [num |-> [k \in DOMAIN nl.diff |-> DiffP5(nl.diff[k])],
                      c |-> 3, npow |-> 2, s |-> s]]

IsZeroT(t) == \A k \in DOMAIN t.num : \A x \in DOMAIN t.num[k] : t.num[k][x] = 0

\* PIXLayer: the atom feature projected on the pairs
PIXLayer(weighted, w, ind_2, px) ==
    [px EXCEPT !.num = [k \in DOMAIN ind_2 |->
        IF weighted
        THEN VAdd(VScale(w, px.num[ind_2[k][1]]), VScale(w, px.num[ind_2[k][2]]))
        ELSE px.num[ind_2[k][2]]]]

\* ScaleLayer: every row scaled by the interaction signal of its pair
ScaleLayer(t, i1) == [t EXCEPT !.num = [k \in DOMAIN t.num |-> VScale(i1[k], t.num[k])]]

\* IPLayer: the pair values summed on the first atom of each pair
IPLayer(ind_2, n, ix) ==
    [ix EXCEPT !.num = [a \in 1..n |->
        LET OfAtom(k) == ind_2[k][1] = a
            rows == SelectSeq([k \in DOMAIN ind_2 |-> k], OfAtom)
        IN  VSum([r \in DOMAIN rows |-> ix.num[rows[r]]], Len(ix.num[1]))]]

\* DotLayer: the inner product of the feature with itself over the rank dimension
DotLayer(weighted, w, px) ==
    [num |-> [a \in DOMAIN px.num |->
                 IF weighted THEN VDot(VScale(w, px.num[a]), VScale(w, px.num[a]))
                 ELSE VDot(px.num[a], px.num[a])],
     c |-> px.c * px.c, npow |-> 2 * px.npow, s |-> px.s]

\* the sum of two tensors, one of which is zero or which share a denominator
TAdd(u, v) ==
    IF IsZeroT(u) THEN v
    ELSE IF IsZeroT(v) THEN u
    ELSE [u EXCEPT !.num = [k \in DOMAIN u.num |-> VAdd(u.num[k], v.num[k])]]

\* EquiVarLayer.call
EquiVarLayer_eval(weighted, w, ind_2, px, i1, diff) ==
    LET ix1 == PIXLayer(weighted, w, ind_2, px)
        ix2 == ScaleLayer(ix1, i1)
        scaled_diff == ScaleLayer(diff, i1)
        ix3 == TAdd(ix2, scaled_diff)
        pxn == IPLayer(ind_2, Len(px.num), ix3)
        dotted_px == DotLayer(weighted, w, pxn)
    IN  [px |-> pxn, ix |-> ix3, dotted |-> dotted_px]

\* the interaction signal of InvarLayer: a function of the pair distances
\* and of the one-hot embedding only
InvarSignal(pre) == [k \in DOMAIN pre.dist2 |-> pre.dist2[k]]

\* the EquiVarLayer calls of GCBlock.call in the first depth step
GCBlock_eval(rk, weighted, w, pre) ==
    LET i1 == InvarSignal(pre)
        e3 == EquiVarLayer_eval(weighted, w, pre.ind_2, pre.p3, i1, pre.norm_diff)
        e5 == EquiVarLayer_eval(weighted, w, pre.ind_2, pre.p5, i1, pre.diff_p5)
    IN  [p3 |-> e3.px, dotted_p3 |-> e3.dotted,
         p5 |-> IF rk >= 5 THEN e5.px ELSE pre.p5,
         dotted_p5 |-> IF rk >= 5 THEN e5.dotted ELSE DotLayer(FALSE, 1, pre.p5)]

EqInputs ==
    {[pc |-> "input", rank |-> rk, weighted |-> wt, w |-> w, rot |-> r, coord |-> c] :
        rk \in {3, 5}, wt \in BOOLEAN, w \in 1..MaxWeight, r \in Rotations,
        c \in {q \in [1..NAtoms -> Vec3] :
                  \A a, b \in 1..NAtoms : a # b => q[a] # q[b]}}

InitEq ==
    /\ MainInit
    /\ eq \in {e \in EqInputs : ~e.weighted => e.w = 1}

mainVars == <<pc, err, via, modelVars, callVars>>

\* PreprocessLayer.call on the coordinates and on the rotated coordinates
EqPreprocess ==
    /\ eq.pc = "input"
    /\ eq' = [pc |-> "preprocessed", rank |-> eq.rank, weighted |-> eq.weighted,
              w |-> eq.w, rot |-> eq.rot,
              preA |-> PreprocessLayer_eval(eq.rank, eq.coord),
              preB |-> PreprocessLayer_eval(eq.rank,
                           [a \in 1..NAtoms |-> Rotate(eq.rot, eq.coord[a])])]
    /\ UNCHANGED mainVars

\* the first GCBlock of both passes
EqBlock ==
    /\ eq.pc = "preprocessed"
    /\ eq' = [pc |-> "done", rank |-> eq.rank, rot |-> eq.rot,
              outA |-> GCBlock_eval(eq.rank, eq.weighted, eq.w, eq.preA),
              outB |-> GCBlock_eval(eq.rank, eq.weighted, eq.w, eq.preB)]
    /\ UNCHANGED mainVars

NextEq == EqPreprocess \/ EqBlock

SpecEq == InitEq /\ [][NextEq]_vars

RotateT(r, t) == [t EXCEPT !.num = [a \in DOMAIN t.num |-> Rotate(r, t.num[a])]]

\* the rank-3 feature of the rotated input is the rotated rank-3 feature
Rank3Equivariant ==
    eq.pc = "done" => eq.outB.p3 = RotateT(eq.rot, eq.outA.p3)

\* C9: for a rotation applied to all coordinates the rank-3 output is the
\* rotated rank-3 output, and the dotted-contraction outputs of both
\* EquiVarLayers (rank 3 and rank 5) are unchanged.
C9_Equivariance ==
    /\ Rank3Equivariant
    /\ eq.pc = "done" => /\ eq.outB.dotted_p3 = eq.outA.dotted_p3
                         /\ eq.outB.dotted_p5 = eq.outA.dotted_p5

\* the rank-3 part alone
C9_Rank3Part ==
    /\ Rank3Equivariant
    /\ eq.pc = "done" => eq.outB.dotted_p3 = eq.outA.dotted_p3

====
